---- MODULE Spec2Model ----
(***************************************************************************)
(* A model of the volume-server side of SeaweedFS:                         *)
(*   - VolumeCopy / CopyFile / ReadVolumeFileStatus (replica repair),      *)
(*   - the volume server's heartbeat loop,                                 *)
(*   - the whitelist guard of the admin endpoints,                         *)
(*   - the master client's KeepConnected loop,                             *)
(*   - the compact command.                                                *)
(* Each subsystem has its own specification; the variables of the other    *)
(* subsystems stay at their idle values.                                   *)
(***************************************************************************)
EXTENDS Integers, Sequences, FiniteSets, TLC

VARIABLES
    \* ---- source volume server (the peer VolumeCopy copies from)
    srcDat,       \* bytes of the source's .dat: a sequence of needles <<id, data>>
    srcIdx,       \* bytes of the source's .idx: a sequence of entries <<id, offset, size>>
    srcRev,       \* v.CompactionRevision of the source volume
    \* ---- destination volume server (the one running VolumeCopy)
    dstDat,       \* [exists, bytes]: the file datFileName
    dstIdx,       \* [exists, bytes]: the file idxFileName
    dstMounted,   \* vs.store.GetVolume(req.VolumeId) != nil
    vcPc,         \* position of the VolumeCopy handler
    vcResp,       \* volFileInfoResp
    vcErr,        \* the error VolumeCopy returned ("none": success or still running)
    vcWrote,      \* the files ("idx", "dat") writeToFile has opened in this call
    dstModTimeAsReported,  \* the destination .dat's modification time is the
                      \* DatFileTimestampSeconds of the status VolumeCopy read
    dstFromRev,       \* for the .idx and the .dat of the destination: the revision
                      \* of the source file the bytes written by this call were
                      \* read from (-1: none written)
    vcBefore,         \* the volume of req.VolumeId as VolumeCopy found it: mounted or
                      \* not, and the files at datFileName and idxFileName
    stream,       \* the CopyFile stream in progress (server handler and channel)
    \* ---- the volume server's heartbeat loop
    pulseSeconds,     \* vs.pulseSeconds
    masterNode,       \* vs.masterNode
    bootstrapMaster,  \* the master handed to the store before the loop starts
    connected,        \* the loop's local variable
    hbPc,             \* "join": about to call vs.store.Join(); "sleep": in time.Sleep
    hbSleep,          \* the duration of the last time.Sleep, in milliseconds
    joinOk,           \* the last Join returned no error
    joinMaster,       \* the master the last Join returned ("" with an error)
    hbFails,          \* failed Joins in a row (counted up to MaxFails)
    vsStopped,        \* Shutdown has closed the store
    \* ---- the guard of the volume server's HTTP endpoints
    whiteList,        \* the whiteList NewVolumeServer was given ([]string)
    secReq,           \* the last request served: its path, r.RemoteAddr and its peer
    secInvoked,       \* the handler that request reached ("none": no handler)
    secBody,          \* what was written to that request's response
    \* ---- the master client (wdclient.MasterClient)
    mcPc,             \* "dial": about to connect to masters[mcIdx]; "recv": in the
                      \* receive loop; "sleep": in KeepConnectedToMaster's time.Sleep
    mcIdx,            \* the position of tryAllMasters' range loop in mc.masters
    mcCurrentMaster,  \* mc.currentMaster
    mcVidMap,         \* mc.vidMap: the set of <<vid, location>> it maps
    mcMsg,            \* volumeLocation: the last message stream.Recv returned
    mcAnnounced,      \* the <<vid, location>> whose last announcement the master put
                      \* on this client's streams was a deletion
    mcUp,             \* the masters that stay reachable: a dial of one of them
                      \* succeeds and its stream does not break
    mcWaitPc,         \* the caller of WaitUntilConnected: "waiting", "returned"
    \* ---- the compact command
    cmdFlags,         \* the flags: volumeId, method, preallocateMB
    cmdPc,            \* "start", "loaded", "exited"
    cmdLoadErr,       \* err of storage.NewVolume: "unset", "nil", "error"
    cmdCompactErr,    \* err of v.Compact / v.Compact2: "unset", "nil", "error"
    cmdCalled,        \* the compaction method called: "none", "Compact", "Compact2"
    cmdExit,          \* "running"; "true", "false": what runCompact returned;
                      \* "fatal": the process was ended by LogFatalIfError
    \* ---- a volume under compaction (storage.Volume)
    volDat,           \* the needles of the .dat, in file order
    volReadOnly,      \* the volume's read_only flag
    volCompacting,    \* "no"; "Compact", "Compact2": the .cpd is built
    volS,             \* the start offset S of an online compaction
    volCpd,           \* the needles of the .cpd
    volRev,           \* compaction_revision
    volTail,          \* the post-S tail the last commit appended to the .cpd
    \* ---- parseURLPath
    urlIn,            \* the request path and the parts it was written from
    urlPc,            \* "start", "parsed"
    urlRet,           \* what parseURLPath returned
    \* ---- the filer's PostHandler
    fsReq,            \* the request: method, multipart, path, fileName, md5
    fsStore0,         \* the filer store (path -> fid) when the request arrived
    fsStore,          \* the filer store
    fsNeedles,        \* per fid: "absent", "old" (live, an earlier body), "new"
                      \* (live, this request's body), "deleted"
    fsPc,             \* "start", "upload", "uploaded", "create", "done"
    fsFileId,         \* fileId
    fsPath,           \* path (line 284)
    fsRetName,        \* ret.Name
    fsLog,            \* the calls made: Assign, Upload, DeleteFile, CreateFile
    fsStatus          \* the response status written (0: none)

copyVars == <<srcDat, srcIdx, srcRev, dstDat, dstIdx, dstMounted,
              vcPc, vcResp, vcErr, vcWrote, dstModTimeAsReported, dstFromRev,
              vcBefore, stream>>

hbVars == <<pulseSeconds, masterNode, bootstrapMaster, connected, hbPc, hbSleep,
            joinOk, joinMaster, hbFails, vsStopped>>

secVars == <<whiteList, secReq, secInvoked, secBody>>

mcVars == <<mcPc, mcIdx, mcCurrentMaster, mcVidMap, mcMsg, mcAnnounced, mcUp,
            mcWaitPc>>

cmdVars == <<cmdFlags, cmdPc, cmdLoadErr, cmdCompactErr, cmdCalled, cmdExit>>

volVars == <<volDat, volReadOnly, volCompacting, volS, volCpd, volRev, volTail>>

urlVars == <<urlIn, urlPc, urlRet>>

fsVars == <<fsReq, fsStore0, fsStore, fsNeedles, fsPc, fsFileId, fsPath, fsRetName,
           fsLog, fsStatus>>

vars == <<copyVars, hbVars, secVars, mcVars, cmdVars, volVars, urlVars, fsVars>>

\* what the steps of one subsystem leave alone
notCopy == <<hbVars, secVars, mcVars, cmdVars, volVars, urlVars, fsVars>>
notHb == <<copyVars, secVars, mcVars, cmdVars, volVars, urlVars, fsVars>>
notSec == <<copyVars, hbVars, mcVars, cmdVars, volVars, urlVars, fsVars>>
notMc == <<copyVars, hbVars, secVars, cmdVars, volVars, urlVars, fsVars>>
notCmd == <<copyVars, hbVars, secVars, mcVars, volVars, urlVars, fsVars>>
notVol == <<copyVars, hbVars, secVars, mcVars, cmdVars, urlVars, fsVars>>
notUrl == <<copyVars, hbVars, secVars, mcVars, cmdVars, volVars, fsVars>>
notFs == <<copyVars, hbVars, secVars, mcVars, cmdVars, volVars, urlVars>>

----------------------------------------------------------------------------
(* Bounds of the model *)

MaxFile == 2        \* most needles the source volume's .dat ever holds at once
MaxRev == 1         \* most compaction commits on the source
MaxStale == 1       \* most needles in the replica the destination starts with
BufferSize == 2     \* CopyFile's read buffer, in bytes of the model
MaxChan == 1        \* most CopyFile responses in flight on the stream
MaxPulse == 3       \* largest pulseSeconds a volume server is started with
MaxFails == 3       \* failed Joins in a row are counted up to this number
MaxWhiteList == 2   \* most entries of the whitelist
MaxVolumeId == 3    \* largest -volumeId the compact command is run with
MaxMethod == 2      \* largest -method the compact command is run with
MaxPreallocateMB == 1   \* largest -preallocateMB
MaxVolLen == 3      \* most needles in the .dat of a volume under compaction
MaxVolRev == 1      \* most compactions committed on that volume
MaxPart == 2        \* most characters of a vid, a fid or an extension in a path
MaxRawPath == 3     \* most characters of a path of no particular form

Ids == {1}
Data == {0, 1}      \* 0: a tombstone (size 0)

Min(a, b) == IF a < b THEN a ELSE b

----------------------------------------------------------------------------
(* Files *)

NoFile == [exists |-> FALSE, bytes |-> <<>>]
File(b) == [exists |-> TRUE, bytes |-> b]

Needles == Ids \X Data

\* the .idx a volume writes for a .dat: one entry per appended needle
IdxEntry(n, off) == <<n[1], off, IF n[2] = 0 THEN 0 ELSE 1>>
IdxOf(dat) == [i \in 1..Len(dat) |-> IdxEntry(dat[i], i)]

\* every sequence over S of length at most n
SeqsUpTo(S, n) == UNION {[1..k -> S] : k \in 0..n}

\* a needle is live when it is the last entry of its id and not a tombstone
IsLive(dat, i) ==
    /\ dat[i][2] # 0
    /\ \A j \in (i+1)..Len(dat) : dat[j][1] # dat[i][1]

RECURSIVE Compacted(_, _)
Compacted(dat, i) ==
    IF i > Len(dat) THEN <<>>
    ELSE IF IsLive(dat, i) THEN <<dat[i]>> \o Compacted(dat, i + 1)
    ELSE Compacted(dat, i + 1)

----------------------------------------------------------------------------
(* The source volume: appends and compaction commits *)

\* Volume append: the needle goes to the .dat and its entry to the .idx; a
\* CopyFile handler that holds the file open sees the file grow.
StreamFileAfterAppend(n) ==
    IF stream.live
    THEN [stream EXCEPT !.file =
            IF stream.isDat THEN Append(srcDat, n)
            ELSE Append(srcIdx, IdxEntry(n, Len(srcDat) + 1))]
    ELSE stream

SrcAppend ==
    /\ Len(srcDat) < MaxFile
    /\ \E n \in Needles :
        /\ srcDat' = Append(srcDat, n)
        /\ srcIdx' = Append(srcIdx, IdxEntry(n, Len(srcDat) + 1))
        /\ stream' = StreamFileAfterAppend(n)
    /\ UNCHANGED <<srcRev, dstDat, dstIdx, dstMounted, vcPc, vcResp, vcErr,
                   vcWrote>>
    /\ UNCHANGED <<dstModTimeAsReported, dstFromRev, vcBefore>>

\* Compaction commit: the files are rewritten with the live needles only and
\* swapped in by rename; the revision goes up by one.  An open file handle
\* keeps the old file.
SrcCompactCommit ==
    /\ srcRev < MaxRev
    /\ srcDat' = Compacted(srcDat, 1)
    /\ srcIdx' = IdxOf(srcDat')
    /\ srcRev' = srcRev + 1
    /\ stream' = [stream EXCEPT !.live = FALSE]
    /\ UNCHANGED <<dstDat, dstIdx, dstMounted, vcPc, vcResp, vcErr, vcWrote>>
    /\ UNCHANGED <<dstModTimeAsReported, dstFromRev, vcBefore>>

----------------------------------------------------------------------------
(* ReadVolumeFileStatus (source side) *)

ReadVolumeFileStatus ==
    [DatFileSize |-> Len(srcDat), IdxFileSize |-> Len(srcIdx),
     CompactionRevision |-> srcRev]

NoneCopied == [idx |-> -1, dat |-> -1]

\* before VolumeCopy is called nothing has been found
NoBefore == [mounted |-> FALSE, dat |-> NoFile, idx |-> NoFile]

NoResp == [DatFileSize |-> 0, IdxFileSize |-> 0, CompactionRevision |-> 0]

----------------------------------------------------------------------------
(* CopyFile (source side): the handler and its stream *)

NoStream ==
    [state |-> "none", isDat |-> FALSE, reqRev |-> 0, stop |-> 0,
     vrev |-> -1,          \* v.CompactionRevision as line 181 read it (-1: not yet)
     bytesToRead |-> 0, file |-> <<>>, live |-> FALSE, pos |-> 0,
     openRev |-> -1,       \* the revision of the file os.Open returned
     sent |-> 0,           \* bytes handed to stream.Send so far
     chan |-> <<>>, err |-> "none"]

\* the request VolumeCopy sends
NewStream(isDat, rev, stopOffset) ==
    [NoStream EXCEPT !.state = "check", !.isDat = isDat, !.reqRev = rev,
                     !.stop = stopOffset]

\* the staleness test left out: every request passes
RevisionMatchesAlways(vrev, reqRev) == TRUE

\* line 181: the staleness test
RevisionMatches(vrev, reqRev) == vrev = reqRev

\* lines 176-185: GetVolume, the revision check, bytesToRead
CopyFileCheck ==
    /\ stream.state = "check"
    /\ stream' =
         IF RevisionMatches(srcRev, stream.reqRev)
         THEN [stream EXCEPT !.state = "open", !.vrev = srcRev,
                             !.bytesToRead = stream.stop]
         ELSE [stream EXCEPT !.state = "err", !.vrev = srcRev,
                             !.err = "compacted"]
    /\ UNCHANGED <<srcDat, srcIdx, srcRev, dstDat, dstIdx, dstMounted, vcPc,
                   vcResp, vcErr, vcWrote>>
    /\ UNCHANGED <<dstModTimeAsReported, dstFromRev, vcBefore>>

\* lines 187-198: os.Open of the .dat or the .idx, which may fail
CopyFileOpen ==
    /\ stream.state = "open"
    /\ \E ok \in BOOLEAN :
        stream' =
          IF ok
          THEN [stream EXCEPT !.state = "send", !.live = TRUE, !.pos = 0,
                  !.openRev = srcRev,
                  !.file = IF stream.isDat THEN srcDat ELSE srcIdx]
          ELSE [stream EXCEPT !.state = "err", !.err = "io"]
    /\ UNCHANGED <<srcDat, srcIdx, srcRev, dstDat, dstIdx, dstMounted, vcPc,
                   vcResp, vcErr, vcWrote>>
    /\ UNCHANGED <<dstModTimeAsReported, dstFromRev, vcBefore>>

\* the buffer sent whole, whatever is left to read
SendWholeBuffer(bytesread, bytesToRead) == bytesread

\* lines 215-217: no more than bytesToRead bytes of the buffer are sent
ClampToBytesToRead(bytesread, bytesToRead) == Min(bytesread, bytesToRead)

\* lines 202-228: one turn of the read/send loop
CopyFileSend ==
    /\ stream.state = "send"
    /\ Len(stream.chan) < MaxChan
    /\ LET bytesread == Min(BufferSize, Len(stream.file) - stream.pos)
           n == ClampToBytesToRead(bytesread, stream.bytesToRead)
       IN  stream' =
             IF stream.bytesToRead <= 0
             THEN [stream EXCEPT !.state = "done", !.live = FALSE]
             ELSE IF bytesread = 0   \* io.EOF
             THEN [stream EXCEPT !.state = "done", !.live = FALSE]
             ELSE [stream EXCEPT
                     !.chan = Append(stream.chan,
                                SubSeq(stream.file, stream.pos + 1, stream.pos + n)),
                     !.pos = stream.pos + bytesread,
                     !.sent = stream.sent + n,
                     !.bytesToRead = stream.bytesToRead - n]
    /\ UNCHANGED <<srcDat, srcIdx, srcRev, dstDat, dstIdx, dstMounted, vcPc,
                   vcResp, vcErr, vcWrote>>
    /\ UNCHANGED <<dstModTimeAsReported, dstFromRev, vcBefore>>

\* a read error, a send error or a cancellation ends the stream with an error
CopyFileFail ==
    /\ stream.state \in {"check", "open", "send"}
    /\ stream' = [stream EXCEPT !.state = "err", !.err = "io", !.live = FALSE]
    /\ UNCHANGED <<srcDat, srcIdx, srcRev, dstDat, dstIdx, dstMounted, vcPc,
                   vcResp, vcErr, vcWrote>>
    /\ UNCHANGED <<dstModTimeAsReported, dstFromRev, vcBefore>>

----------------------------------------------------------------------------
(* VolumeCopy (destination side) *)

\* lines 20-32: unmount a mounted volume, find a free location
VolumeCopyStart ==
    /\ vcPc = "idle"
    /\ vcWrote' = {}
    /\ vcResp' = NoResp
    /\ stream' = NoStream
    /\ \E unmountOk \in BOOLEAN, hasFree \in BOOLEAN :
         IF dstMounted /\ ~unmountOk
         THEN /\ vcPc' = "done"
              /\ vcErr' = "unmount"
              /\ UNCHANGED dstMounted
         ELSE /\ dstMounted' = FALSE
              /\ IF hasFree
                 THEN vcPc' = "status" /\ vcErr' = "none"
                 ELSE vcPc' = "done" /\ vcErr' = "nospace"
    /\ UNCHANGED <<srcDat, srcIdx, srcRev, dstDat, dstIdx>>
    /\ UNCHANGED dstModTimeAsReported
    /\ dstFromRev' = NoneCopied
    /\ vcBefore' = [mounted |-> dstMounted, dat |-> dstDat, idx |-> dstIdx]

\* the error returned with the files left in place
VolumeCopyFailKeepsFiles(e) ==
    /\ UNCHANGED <<dstIdx, dstDat, dstModTimeAsReported>>
    /\ vcPc' = "done"
    /\ vcErr' = e

\* lines 89-93: the copy failed; both files are removed and the error returned
VolumeCopyFail(e) ==
    /\ dstIdx' = NoFile
    /\ dstDat' = NoFile
    /\ dstModTimeAsReported' = FALSE
    /\ vcPc' = "done"
    /\ vcErr' = e

\* lines 45-53: dial the source and read its file status
VolumeCopyStatus ==
    /\ vcPc = "status"
    /\ \E ok \in BOOLEAN :
         IF ok
         THEN /\ vcResp' = ReadVolumeFileStatus
              /\ vcPc' = "idxStart"
              /\ dstModTimeAsReported' \in
                    IF dstDat.exists THEN BOOLEAN ELSE {FALSE}
              /\ UNCHANGED <<dstDat, dstIdx, vcErr>>
         ELSE /\ VolumeCopyFail("status")
              /\ UNCHANGED vcResp
    /\ UNCHANGED <<srcDat, srcIdx, srcRev, dstMounted, vcWrote, stream>>
    /\ UNCHANGED <<dstFromRev, vcBefore>>

\* lines 57-65 and 72-80: client.CopyFile for the .idx, then for the .dat
VolumeCopyCopyFile ==
    /\ vcPc \in {"idxStart", "datStart"}
    /\ \E ok \in BOOLEAN :
         IF ok
         THEN /\ stream' =
                   IF vcPc = "idxStart"
                   THEN NewStream(FALSE, vcResp.CompactionRevision, vcResp.IdxFileSize)
                   ELSE NewStream(TRUE, vcResp.CompactionRevision, vcResp.DatFileSize)
              /\ vcPc' = IF vcPc = "idxStart" THEN "idxOpen" ELSE "datOpen"
              /\ UNCHANGED <<dstDat, dstIdx, vcErr, dstModTimeAsReported>>
         ELSE /\ VolumeCopyFail("start")
              /\ stream' = NoStream
    /\ UNCHANGED <<srcDat, srcIdx, srcRev, dstMounted, vcResp, vcWrote>>
    /\ UNCHANGED <<dstFromRev, vcBefore>>

\* lines 136-141: writeToFile opens the destination (create, truncate); when
\* that fails it returns nil and the stream is never read
WriteToFileOpen ==
    /\ vcPc \in {"idxOpen", "datOpen"}
    /\ \E ok \in BOOLEAN :
         IF ok
         THEN /\ IF vcPc = "idxOpen"
                 THEN /\ dstIdx' = File(<<>>)
                      /\ UNCHANGED <<dstDat, dstModTimeAsReported>>
                 ELSE /\ dstDat' = File(<<>>)
                      /\ dstModTimeAsReported' \in BOOLEAN
                      /\ UNCHANGED dstIdx
              /\ vcWrote' = vcWrote \cup {IF vcPc = "idxOpen" THEN "idx" ELSE "dat"}
              /\ vcPc' = IF vcPc = "idxOpen" THEN "idxRecv" ELSE "datRecv"
              /\ UNCHANGED stream
         ELSE /\ vcPc' = IF vcPc = "idxOpen" THEN "datStart" ELSE "check"
              /\ stream' = NoStream
              /\ UNCHANGED <<dstDat, dstIdx, vcWrote, dstModTimeAsReported>>
    /\ UNCHANGED <<srcDat, srcIdx, srcRev, dstMounted, vcResp, vcErr>>
    /\ UNCHANGED <<dstFromRev, vcBefore>>

\* line 151: dst.Write(resp.FileContent); its result is not looked at, so a
\* failed write leaves the first k bytes of the chunk
WriteToFileRecvChunk ==
    /\ vcPc \in {"idxRecv", "datRecv"}
    /\ stream.chan # <<>>
    /\ LET chunk == Head(stream.chan)
       IN  \E k \in 0..Len(chunk) :
             IF vcPc = "idxRecv"
             THEN /\ dstIdx' = File(dstIdx.bytes \o SubSeq(chunk, 1, k))
                  /\ UNCHANGED <<dstDat, dstModTimeAsReported>>
             ELSE /\ dstDat' = File(dstDat.bytes \o SubSeq(chunk, 1, k))
                  /\ dstModTimeAsReported' \in BOOLEAN
                  /\ UNCHANGED dstIdx
    /\ UNCHANGED vcBefore
    /\ dstFromRev' = [dstFromRev EXCEPT
                         ![IF vcPc = "idxRecv" THEN "idx" ELSE "dat"] = stream.openRev]
    /\ stream' = [stream EXCEPT !.chan = Tail(stream.chan)]
    /\ UNCHANGED <<srcDat, srcIdx, srcRev, dstMounted, vcPc, vcResp, vcErr,
                   vcWrote>>

\* lines 145-147: io.EOF ends writeToFile without an error
WriteToFileRecvEOF ==
    /\ vcPc \in {"idxRecv", "datRecv"}
    /\ stream.chan = <<>>
    /\ stream.state = "done"
    /\ vcPc' = IF vcPc = "idxRecv" THEN "datStart" ELSE "check"
    /\ stream' = NoStream
    /\ UNCHANGED <<srcDat, srcIdx, srcRev, dstDat, dstIdx, dstMounted, vcResp,
                   vcErr, vcWrote>>
    /\ UNCHANGED <<dstModTimeAsReported, dstFromRev, vcBefore>>

\* lines 148-150, 68-70, 83-85, 89-93: a receive error ends the copy
WriteToFileRecvErr ==
    /\ vcPc \in {"idxRecv", "datRecv"}
    /\ stream.state = "err"
    /\ VolumeCopyFail(IF stream.err = "compacted" THEN "compacted" ELSE "recv")
    /\ stream' = NoStream
    /\ UNCHANGED <<srcDat, srcIdx, srcRev, dstMounted, vcResp, vcWrote>>
    /\ UNCHANGED <<dstFromRev, vcBefore>>

\* lines 114-133: only the sizes are compared
checkCopyFiles(resp, idx, dat) ==
    /\ idx.exists
    /\ resp.IdxFileSize = Len(idx.bytes)
    /\ dat.exists
    /\ resp.DatFileSize = Len(dat.bytes)

\* lines 95-97
VolumeCopyCheck ==
    /\ vcPc = "check"
    /\ IF checkCopyFiles(vcResp, dstIdx, dstDat)
       THEN vcPc' = "mount" /\ UNCHANGED vcErr
       ELSE vcPc' = "done" /\ vcErr' = "check"
    /\ UNCHANGED <<srcDat, srcIdx, srcRev, dstDat, dstIdx, dstMounted, vcResp,
                   vcWrote, stream>>
    /\ UNCHANGED <<dstModTimeAsReported, dstFromRev, vcBefore>>

\* lines 99-107
VolumeCopyMount ==
    /\ vcPc = "mount"
    /\ \E ok \in BOOLEAN :
         IF ok
         THEN dstMounted' = TRUE /\ vcPc' = "done" /\ UNCHANGED vcErr
         ELSE vcPc' = "done" /\ vcErr' = "mount" /\ UNCHANGED dstMounted
    /\ UNCHANGED <<srcDat, srcIdx, srcRev, dstDat, dstIdx, vcResp, vcWrote,
                   stream>>
    /\ UNCHANGED <<dstModTimeAsReported, dstFromRev, vcBefore>>

----------------------------------------------------------------------------

CopyInit ==
    /\ srcDat = <<>>
    /\ srcIdx = <<>>
    /\ srcRev = 0
    /\ \E replica \in BOOLEAN, stale \in SeqsUpTo(Needles, MaxStale) :
         /\ dstMounted = replica
         /\ dstDat = IF replica THEN File(stale) ELSE NoFile
         /\ dstIdx = IF replica THEN File(IdxOf(stale)) ELSE NoFile
    /\ vcPc = "idle"
    /\ vcResp = NoResp
    /\ vcErr = "none"
    /\ vcWrote = {}
    /\ dstModTimeAsReported = FALSE
    /\ dstFromRev = NoneCopied
    /\ vcBefore = NoBefore
    /\ stream = NoStream

----------------------------------------------------------------------------
(* Properties of VolumeCopy and CopyFile *)

VolumeCopySucceeded == vcPc = "done" /\ vcErr = "none"

\* the source's files as ReadVolumeFileStatus reported them, while the source
\* has only been appended to since
SourceDatAtStatus == SubSeq(srcDat, 1, vcResp.DatFileSize)
SourceIdxAtStatus == SubSeq(srcIdx, 1, vcResp.IdxFileSize)

\* C1: with only appends on the source since the file status was read, a
\* VolumeCopy that returned success has left a .dat and an .idx with the
\* size and the bytes the source's files had when the status was read.
C1_CopyEqualsSource ==
    (VolumeCopySucceeded /\ srcRev = vcResp.CompactionRevision) =>
        /\ dstDat = File(SourceDatAtStatus)
        /\ dstIdx = File(SourceIdxAtStatus)

\* a file writeToFile opened in this call and left shorter than the size the
\* source reported
PartialIdx == "idx" \in vcWrote /\ dstIdx.exists /\ Len(dstIdx.bytes) < vcResp.IdxFileSize
PartialDat == "dat" \in vcWrote /\ dstDat.exists /\ Len(dstDat.bytes) < vcResp.DatFileSize

\* C2: when VolumeCopy has returned an error after writing to a destination
\* file (a receive error, a cancellation, or a failed size confirmation), no
\* partial .idx and no partial .dat is left.
C2_PartialFileDeleted ==
    (vcPc = "done" /\ vcErr \in {"recv", "compacted", "check"} /\ vcWrote # {}) =>
        ~PartialIdx /\ ~PartialDat

\* C3: a CopyFile whose request carries another revision than the volume's
\* ends with an error and has sent nothing; bytes are sent only by a handler
\* that found the two revisions equal.
C3_StaleRevisionStreamsNothing ==
    stream.vrev # -1 =>
        /\ stream.vrev # stream.reqRev =>
               /\ stream.state = "err"
               /\ stream.err = "compacted"
               /\ stream.sent = 0
               /\ stream.chan = <<>>
        /\ (stream.sent > 0 \/ stream.chan # <<>>) => stream.vrev = stream.reqRev

C3_Witness ==
    /\ stream.vrev # -1
    /\ stream.vrev # stream.reqRev
    /\ stream.state = "err"
    /\ vcResp.DatFileSize > 0

\* C4 (as the claim states it): a compaction-revision mismatch never ends
\* the VolumeCopy with an error.
C4_MismatchRestartsTransfer ==
    ~(vcPc = "done" /\ vcErr = "compacted")

\* C4 (amended): once VolumeCopy has received the compaction-revision
\* mismatch from a CopyFile stream it has ended with that error, both
\* destination files are removed and the volume is not mounted; nothing is
\* restarted.
C4_MismatchEndsCopy ==
    vcErr = "compacted" =>
        /\ vcPc = "done"
        /\ dstIdx = NoFile
        /\ dstDat = NoFile
        /\ ~dstMounted
        /\ stream = NoStream

C4_Witness ==
    /\ vcErr = "compacted"
    /\ vcPc = "done"
    /\ "idx" \in vcWrote

\* C14: a CopyFile call that passes the revision check streams, in file
\* order, exactly the first min(StopOffset, file size) bytes of the file and
\* then ends; it never sends a byte at or beyond StopOffset, also when the
\* file grows by appends while the stream is running.
C14_StreamsUpToStopOffset ==
    /\ [][stream'.sent > stream.sent =>
            /\ stream.state = "send"
            /\ stream'.sent <= stream.stop
            /\ stream'.chan = Append(stream.chan,
                  SubSeq(stream.file, stream.sent + 1, stream'.sent))]_vars
    /\ [](stream.state = "done" =>
            stream.sent = Min(stream.stop, Len(stream.file)))

\* the file grew beyond StopOffset while it was streamed, and the stream
\* ended at StopOffset
C14_Witness ==
    /\ stream.state = "done"
    /\ stream.stop > 0
    /\ stream.sent = stream.stop
    /\ Len(stream.file) > stream.stop

\* C15: VolumeCopy mounts the volume only after the confirmation has passed;
\* a volume whose copied files differ from the size or the timestamp the
\* source reported is never mounted.
C15_MountedOnlyWhenConfirmed ==
    [][(~dstMounted /\ dstMounted') =>
          /\ vcPc = "mount"
          /\ dstIdx.exists /\ Len(dstIdx.bytes) = vcResp.IdxFileSize
          /\ dstDat.exists /\ Len(dstDat.bytes) = vcResp.DatFileSize
          /\ dstModTimeAsReported]_vars

\* C16: whatever the interleaving of a compaction commit on the source with
\* a running VolumeCopy, a VolumeCopy that returned success has copied an
\* .idx and a .dat that both belong to the compaction revision
\* ReadVolumeFileStatus reported.
C16_NoMixedRevisionCopy ==
    (VolumeCopySucceeded /\ dstFromRev.idx # -1 /\ dstFromRev.dat # -1) =>
        /\ dstFromRev.idx = vcResp.CompactionRevision
        /\ dstFromRev.dat = vcResp.CompactionRevision

\* C22: when VolumeCopy fails, for whatever reason, a volume of that id that
\* was mounted on the destination before the call is still mounted and its
\* .dat and .idx files are as they were.
C22_FailedCopyKeepsReplica ==
    (vcPc = "done" /\ vcErr # "none" /\ vcBefore.mounted) =>
        /\ dstMounted
        /\ dstDat = vcBefore.dat
        /\ dstIdx = vcBefore.idx

\* the part of it that holds: a failed unmount leaves the replica mounted
\* and its files as they were
C22_FailedUnmountKeepsReplica ==
    (vcPc = "done" /\ vcErr = "unmount") =>
        /\ dstMounted
        /\ dstDat = vcBefore.dat
        /\ dstIdx = vcBefore.idx

----------------------------------------------------------------------------
(* The heartbeat loop of the volume server (NewVolumeServer's goroutine) *)

Masters == {"m1", "m2"}

\* rand.Float32() returns k / 2^24 for some k in 0 .. 2^24 - 1; the model
\* draws k from the ends and the middle of that range
RandSamples == {0, 1, 2^23, 2^24 - 2, 2^24 - 1}

\* float32(1 + k/2^24), as its 24-bit significand M: the value is M / 2^23.
\* The exact sum is (2^24 + k) / 2^24; an odd k is a tie and goes to the even
\* significand.
OnePlusRand(k) ==
    IF k % 2 = 0 THEN 2^23 + (k \div 2)
    ELSE LET lo == (2^24 + k - 1) \div 2
         IN  IF lo % 2 = 0 THEN lo ELSE lo + 1

\* the binary exponent e of a value in [2^e, 2^(e+1)), for the values a
\* heartbeat delay takes
Exponent(n) ==
    IF n < 2^10 THEN 9
    ELSE IF n < 2^11 THEN 10
    ELSE IF n < 2^12 THEN 11
    ELSE IF n < 2^13 THEN 12
    ELSE 13

\* time.Duration(float32(a) * f) for the float32 f = M / 2^23: the product is
\* rounded to float32 (nearest, ties to even) and then cut to an integer.
\* The exact product is a + a * (M - 2^23) / 2^23, computed here in two
\* halves to stay within 32 bits.
TruncFloat32Product(a, M) ==
    LET r  == M - 2^23
        rh == r \div 2^12
        rl == r % 2^12
        A  == a * rh
        N  == (A % 2^11) * 2^12 + a * rl
        n  == a + (A \div 2^11) + (N \div 2^23)     \* the integer part
        F  == N % 2^23                               \* the fraction, in 2^-23
        e  == Exponent(n)
    IN  IF F > 0 /\ 2^23 - F <= 2^(e - 1) THEN n + 1 ELSE n

\* the delay of line 82 taken while connected as well
ConnectedDelayQuarter(p, k) == (p * 1000) \div 4

\* line 80: float32(vs.pulseSeconds*1e3) * (1 + rand.Float32()), in milliseconds
ConnectedDelay(p, k) == TruncFloat32Product(p * 1000, OnePlusRand(k))

\* the retry delay without the factor 0.25
DisconnectedDelayFullPulse(p) == p * 1000

\* line 82: float32(vs.pulseSeconds*1e3) * 0.25, in milliseconds (exact in
\* float32: a division by four)
DisconnectedDelay(p) == (p * 1000) \div 4

\* the master node left as it was after a reconnect
MasterNodeKept(ok, wasConnected, master, node) == node

\* lines 67-72: the master node is set when a Join succeeds after a failure
MasterNodeAfterJoin(ok, wasConnected, master, node) ==
    IF ok /\ ~wasConnected THEN master ELSE node

\* lines 66-83: one turn of the loop up to its time.Sleep
HbJoin ==
    /\ hbPc = "join"
    /\ \E ok \in BOOLEAN, master \in Masters, k \in RandSamples :
        /\ joinOk' = ok
        /\ joinMaster' = IF ok THEN master ELSE ""
        /\ connected' = ok
        /\ masterNode' = MasterNodeAfterJoin(ok, connected, master, masterNode)
        /\ hbSleep' = IF ok THEN ConnectedDelay(pulseSeconds, k)
                      ELSE DisconnectedDelay(pulseSeconds)
        /\ hbFails' = IF ok THEN 0 ELSE Min(hbFails + 1, MaxFails)
    /\ hbPc' = "sleep"
    /\ UNCHANGED <<pulseSeconds, bootstrapMaster, vsStopped>>

\* time.Sleep returns and the loop goes round
HbWake ==
    /\ hbPc = "sleep"
    /\ hbPc' = "join"
    /\ UNCHANGED <<pulseSeconds, masterNode, bootstrapMaster, connected, hbSleep,
                   joinOk, joinMaster, hbFails, vsStopped>>

\* lines 102-106: Shutdown closes the store
Shutdown ==
    /\ ~vsStopped
    /\ vsStopped' = TRUE
    /\ UNCHANGED <<pulseSeconds, masterNode, bootstrapMaster, connected, hbPc,
                   hbSleep, joinOk, joinMaster, hbFails>>

\* lines 35-41 and 59-64: the server as NewVolumeServer leaves it
HbInit ==
    /\ pulseSeconds \in 1..MaxPulse
    /\ masterNode \in Masters
    /\ bootstrapMaster = masterNode
    /\ connected = TRUE
    /\ hbPc = "join"
    /\ hbSleep = 0
    /\ joinOk = TRUE
    /\ joinMaster = ""
    /\ hbFails = 0
    /\ vsStopped = FALSE

----------------------------------------------------------------------------
(* Properties of the heartbeat loop *)

HbJoinStep == hbPc = "join" /\ hbPc' = "sleep"

C6_ReconnectAfterFailure ==
    /\ [][(HbJoinStep /\ ~connected /\ joinOk') =>
             (connected' /\ masterNode' = joinMaster')]_vars
    /\ [][(HbJoinStep /\ ~joinOk') => ~connected']_vars
    /\ []<>(hbPc = "join")

C6_Witness ==
    /\ hbPc = "sleep"
    /\ connected
    /\ joinOk
    /\ masterNode = joinMaster
    /\ masterNode # bootstrapMaster

\* C11: once the volume server has been stopped (Shutdown), the heartbeat
\* loop issues no further Join to the master.
C11_NoJoinAfterShutdown ==
    [][vsStopped => ~HbJoinStep]_vars

\* C23: after every successful Join the master node of the volume server is
\* the master that Join returned, also when the server was connected already
\* and the master returned is not the one recorded.
C23_MasterNodeFollowsJoin ==
    (hbPc = "sleep" /\ joinOk) => masterNode = joinMaster

\* C17: while the server stays connected, the delay before the next Join is
\* at least pulseSeconds and strictly less than 2 x pulseSeconds, in
\* milliseconds.
C17_DelayBelowTwoPulses ==
    (hbPc = "sleep" /\ connected) =>
        /\ hbSleep >= 1000 * pulseSeconds
        /\ hbSleep < 2000 * pulseSeconds

\* C17, amended: the delay is at least pulseSeconds and at most
\* 2 x pulseSeconds; the upper end is reached.
C17_DelayWithinTwoPulses ==
    (hbPc = "sleep" /\ connected) =>
        /\ hbSleep >= 1000 * pulseSeconds
        /\ hbSleep <= 2000 * pulseSeconds

\* a connected server sleeps two whole pulse intervals
C17_Witness ==
    /\ hbPc = "sleep"
    /\ connected
    /\ joinOk
    /\ hbSleep = 2000 * pulseSeconds

----------------------------------------------------------------------------
(* The whitelist guard of the HTTP endpoints *)

\* strings are sequences of characters
Str1 == <<"1">>
HostA == <<"a">>
HostB == <<"b">>
HostV6 == <<"a", ":", "b">>     \* an IPv6 literal: a host with a colon in it
Hosts == {HostA, HostB, HostV6}

\* strings.LastIndex / strings.Index for one character, 1-based; 0: not found
LastIndexOf(str, c) ==
    LET hits == {i \in 1..Len(str) : str[i] = c}
    IN  IF hits = {} THEN 0 ELSE CHOOSE i \in hits : \A j \in hits : j <= i

IndexOf(str, c) ==
    LET hits == {i \in 1..Len(str) : str[i] = c}
    IN  IF hits = {} THEN 0 ELSE CHOOSE i \in hits : \A j \in hits : i <= j

\* net.JoinHostPort: how the HTTP server writes a TCP peer into r.RemoteAddr
JoinHostPort(host, port) ==
    IF IndexOf(host, ":") > 0
    THEN <<"[">> \o host \o <<"]", ":">> \o port
    ELSE host \o <<":">> \o port

SplitErr(e) == [host |-> <<>>, port |-> <<>>, err |-> e]

\* net.SplitHostPort
SplitHostPort(hostport) ==
    LET i == LastIndexOf(hostport, ":")
        n == Len(hostport)
    IN  IF i = 0 THEN SplitErr("missing port in address")
        ELSE IF hostport[1] = "["
        THEN LET end == IndexOf(hostport, "]")
             IN  IF end = 0 THEN SplitErr("missing ']' in address")
                 ELSE IF end = n THEN SplitErr("missing port in address")
                 ELSE IF end + 1 # i
                 THEN IF hostport[end + 1] = ":"
                      THEN SplitErr("too many colons in address")
                      ELSE SplitErr("missing port in address")
                 ELSE IF IndexOf(SubSeq(hostport, 2, n), "[") > 0
                 THEN SplitErr("unexpected '[' in address")
                 ELSE IF IndexOf(SubSeq(hostport, end + 1, n), "]") > 0
                 THEN SplitErr("unexpected ']' in address")
                 ELSE [host |-> SubSeq(hostport, 2, end - 1),
                       port |-> SubSeq(hostport, i + 1, n), err |-> ""]
        ELSE LET host == SubSeq(hostport, 1, i - 1)
             IN  IF IndexOf(host, ":") > 0
                 THEN SplitErr("too many colons in address")
                 ELSE IF IndexOf(hostport, "[") > 0
                 THEN SplitErr("unexpected '[' in address")
                 ELSE IF IndexOf(hostport, "]") > 0
                 THEN SplitErr("unexpected ']' in address")
                 ELSE [host |-> host, port |-> SubSeq(hostport, i + 1, n),
                       err |-> ""]

\* the peers a request comes from: a TCP peer (host, port), or a peer whose
\* address is no host:port pair (a unix socket, a hand-made request)
TcpPeers == [tcp : {TRUE}, host : Hosts, addr : {<<>>}]
OtherPeers == [tcp : {FALSE}, host : {<<>>}, addr : {<<"@">>, HostA}]
Peers == TcpPeers \cup OtherPeers

RemoteAddr(peer) ==
    IF peer.tcp THEN JoinHostPort(peer.host, Str1) ELSE peer.addr

\* NewVolumeServer lines 46-56: the endpoints registered behind the guard
AdminEndpoints ==
    {"/status", "/admin/assign_volume", "/admin/vacuum_volume_check",
     "/admin/vacuum_volume_compact", "/admin/vacuum_volume_commit",
     "/admin/freeze_volume", "/admin/delete_collection",
     "/stats/counter", "/stats/memory", "/stats/disk"}
SecuredEndpoints == AdminEndpoints \cup {"/delete"}
\* line 57: the store handler is registered without the guard
OpenEndpoints == {"/"}

\* the guard without the test for an empty whitelist
SecureAllowsListedOnly(wl, remoteAddr) ==
    LET r == SplitHostPort(remoteAddr)
    IN  r.err = "" /\ \E i \in 1..Len(wl) : wl[i] = r.host

\* secure, lines 80-93: whether f(w, r) is called
SecureAllows(wl, remoteAddr) ==
    \/ Len(wl) = 0
    \/ LET r == SplitHostPort(remoteAddr)
       IN  r.err = "" /\ \E i \in 1..Len(wl) : wl[i] = r.host

\* line 94: the body written when the request is turned away
DeniedBody(remoteAddr) ==
    <<"error", "No write permisson from ", SplitHostPort(remoteAddr).host>>

NoReq == [path |-> "", remoteAddr |-> <<>>, peer |-> [tcp |-> FALSE, host |-> <<>>, addr |-> <<>>]]

\* one request served by the mux
ServeHTTP ==
    \E path \in SecuredEndpoints \cup OpenEndpoints, peer \in Peers :
        LET addr == RemoteAddr(peer)
            allowed == path \in OpenEndpoints \/ SecureAllows(whiteList, addr)
        IN  /\ secReq' = [path |-> path, remoteAddr |-> addr, peer |-> peer]
            /\ secInvoked' = IF allowed THEN path ELSE "none"
            /\ secBody' = IF allowed THEN <<"handler", path>> ELSE DeniedBody(addr)
            /\ UNCHANGED whiteList

SecInit ==
    /\ whiteList \in SeqsUpTo(Hosts, MaxWhiteList)
    /\ secReq = NoReq
    /\ secInvoked = "none"
    /\ secBody = <<>>

----------------------------------------------------------------------------
(* Properties of the guard *)

PeerIsListed ==
    secReq.peer.tcp /\ \E i \in 1..Len(whiteList) : whiteList[i] = secReq.peer.host

\* C7: a request to an admin endpoint reaches the endpoint's handler exactly
\* when the whitelist is empty or the host of the request's peer is an entry
\* of the whitelist; a request turned away reaches no handler and gets the
\* error body only.
C7_AdminGuarded ==
    secReq.path \in AdminEndpoints =>
        /\ (secInvoked = secReq.path) <=> (Len(whiteList) = 0 \/ PeerIsListed)
        /\ secInvoked # secReq.path =>
              /\ secInvoked = "none"
              /\ secBody[1] = "error"

C7_Witness ==
    /\ secReq.path \in AdminEndpoints
    /\ Len(whiteList) > 0
    /\ secReq.peer.tcp
    /\ ~PeerIsListed
    /\ secInvoked = "none"
    /\ secBody[1] = "error"

----------------------------------------------------------------------------
(* The master client: KeepConnectedToMaster and tryAllMasters *)

McMasters == <<"m1", "m2">>       \* mc.masters
Vids == {1, 2}
Locations == {[Url |-> "u1", PublicUrl |-> "p1"], [Url |-> "u2", PublicUrl |-> "p2"]}

\* the lists of vids a message carries: every order of every set of vids
VidLists == {l \in SeqsUpTo(Vids, Cardinality(Vids)) :
                \A i, j \in 1..Len(l) : i # j => l[i] # l[j]}

\* master_pb.VolumeLocation
VolumeLocations ==
    [Url : {"u1", "u2"}, PublicUrl : {"p1", "p2"}, NewVids : VidLists,
     DeletedVids : VidLists] \ {m \in
       [Url : {"u1", "u2"}, PublicUrl : {"p1", "p2"}, NewVids : VidLists,
        DeletedVids : VidLists] : [Url |-> m.Url, PublicUrl |-> m.PublicUrl] \notin Locations}

NoMsg == [Url |-> "", PublicUrl |-> "", NewVids |-> <<>>, DeletedVids |-> <<>>]

\* vidMap.addLocation and vidMap.deleteLocation
addLocation(vm, vid, loc) == vm \cup {<<vid, loc>>}
deleteLocation(vm, vid, loc) == vm \ {<<vid, loc>>}

RECURSIVE AddAll(_, _, _, _)
AddAll(vm, vids, i, loc) ==
    IF i > Len(vids) THEN vm
    ELSE AddAll(addLocation(vm, vids[i], loc), vids, i + 1, loc)

RECURSIVE DeleteAll(_, _, _, _)
DeleteAll(vm, vids, i, loc) ==
    IF i > Len(vids) THEN vm
    ELSE DeleteAll(deleteLocation(vm, vids[i], loc), vids, i + 1, loc)

\* the two loops the other way round: the deletions first
ApplyDeletionsFirst(vm, msg) ==
    LET loc == [Url |-> msg.Url, PublicUrl |-> msg.PublicUrl]
    IN  AddAll(DeleteAll(vm, msg.DeletedVids, 1, loc), msg.NewVids, 1, loc)

\* lines 76-85: the new vids are added, then the deleted vids are removed
ApplyVolumeLocation(vm, msg) ==
    LET loc == [Url |-> msg.Url, PublicUrl |-> msg.PublicUrl]
    IN  DeleteAll(AddAll(vm, msg.NewVids, 1, loc), msg.DeletedVids, 1, loc)

\* what the master has last said about each <<vid, location>> of a message
AnnouncedAfter(ann, msg) ==
    LET loc == [Url |-> msg.Url, PublicUrl |-> msg.PublicUrl]
        new == {<<msg.NewVids[i], loc>> : i \in 1..Len(msg.NewVids)}
        del == {<<msg.DeletedVids[i], loc>> : i \in 1..Len(msg.DeletedVids)}
    IN  (ann \ new) \cup del

\* the next turn without line 95
McAdvanceKeepsMaster ==
    /\ UNCHANGED mcCurrentMaster
    /\ IF mcIdx < Len(McMasters)
       THEN mcIdx' = mcIdx + 1 /\ mcPc' = "dial"
       ELSE mcIdx' = 1 /\ mcPc' = "sleep"

\* the next turn of tryAllMasters' range loop, or the end of the call
McAdvance ==
    /\ mcCurrentMaster' = ""                       \* line 95
    /\ IF mcIdx < Len(McMasters)
       THEN mcIdx' = mcIdx + 1 /\ mcPc' = "dial"
       ELSE mcIdx' = 1 /\ mcPc' = "sleep"

\* lines 53-69: the dial, KeepConnected and the Send succeed
McConnect ==
    /\ mcPc = "dial"
    /\ mcPc' = "recv"
    /\ mcCurrentMaster' = IF mcCurrentMaster = "" THEN McMasters[mcIdx]
                          ELSE mcCurrentMaster
    /\ UNCHANGED <<mcIdx, mcVidMap, mcMsg, mcAnnounced, mcUp, mcWaitPc>>

\* lines 56-64, 99-109: the dial, KeepConnected or the Send fails
McConnectFail ==
    /\ mcPc = "dial"
    /\ McMasters[mcIdx] \notin mcUp
    /\ McAdvance
    /\ UNCHANGED <<mcVidMap, mcMsg, mcAnnounced, mcUp, mcWaitPc>>

\* lines 72-86: the master sends a message and stream.Recv returns it
McRecv ==
    /\ mcPc = "recv"
    /\ \E msg \in VolumeLocations :
        /\ mcMsg' = msg
        /\ mcVidMap' = ApplyVolumeLocation(mcVidMap, msg)
        /\ mcAnnounced' = AnnouncedAfter(mcAnnounced, msg)
    /\ UNCHANGED <<mcPc, mcIdx, mcCurrentMaster, mcUp, mcWaitPc>>

\* lines 72-74: the stream breaks and stream.Recv returns the error
McRecvErr ==
    /\ mcPc = "recv"
    /\ McMasters[mcIdx] \notin mcUp
    /\ McAdvance
    /\ UNCHANGED <<mcVidMap, mcMsg, mcAnnounced, mcUp, mcWaitPc>>

\* lines 72-74: the stream breaks while a message of the master is on its
\* way; the message is lost and stream.Recv returns the error
McRecvErrLosing ==
    /\ mcPc = "recv"
    /\ McMasters[mcIdx] \notin mcUp
    /\ \E lost \in VolumeLocations :
        mcAnnounced' = AnnouncedAfter(mcAnnounced, lost)
    /\ McAdvance
    /\ UNCHANGED <<mcVidMap, mcMsg, mcUp, mcWaitPc>>

\* line 46: time.Sleep(time.Second), then tryAllMasters again
McSleep ==
    /\ mcPc = "sleep"
    /\ mcPc' = "dial"
    /\ UNCHANGED <<mcIdx, mcCurrentMaster, mcVidMap, mcMsg, mcAnnounced, mcUp,
                   mcWaitPc>>

\* lines 36-40: WaitUntilConnected finds mc.currentMaster set and returns
\* (a turn that finds it empty sleeps and changes nothing)
WaitUntilConnected ==
    /\ mcWaitPc = "waiting"
    /\ mcCurrentMaster # ""
    /\ mcWaitPc' = "returned"
    /\ UNCHANGED <<mcPc, mcIdx, mcCurrentMaster, mcVidMap, mcMsg, mcAnnounced, mcUp>>

\* NewMasterClient, KeepConnectedToMaster started and WaitUntilConnected
\* called, with some of the masters staying reachable
KcInit ==
    /\ mcPc = "dial"
    /\ mcIdx = 1
    /\ mcCurrentMaster = ""
    /\ mcVidMap = {}
    /\ mcMsg = NoMsg
    /\ mcAnnounced = {}
    /\ mcUp \in SUBSET {McMasters[i] : i \in 1..Len(McMasters)}
    /\ mcWaitPc = "waiting"

\* lines 23-30: NewMasterClient
McInit ==
    /\ mcPc = "dial"
    /\ mcIdx = 1
    /\ mcCurrentMaster = ""
    /\ mcVidMap = {}
    /\ mcMsg = NoMsg
    /\ mcAnnounced = {}
    /\ mcUp = {}
    /\ mcWaitPc = "waiting"

----------------------------------------------------------------------------
(* Properties of the master client *)

MsgLocation(msg) == [Url |-> msg.Url, PublicUrl |-> msg.PublicUrl]
ListSet(l) == {l[i] : i \in 1..Len(l)}

\* C8: after one VolumeLocation message for location L is processed, no vid
\* of deleted_vids is mapped to L, every vid of new_vids that is not in
\* deleted_vids is mapped to L, and every other mapping is as it was.
C8_VolumeLocationApplied ==
    [][(mcPc = "recv" /\ mcPc' = "recv") =>
        LET msg == mcMsg'
            loc == MsgLocation(msg)
            new == ListSet(msg.NewVids)
            del == ListSet(msg.DeletedVids)
        IN  /\ \A v \in del : <<v, loc>> \notin mcVidMap'
            /\ \A v \in new \ del : <<v, loc>> \in mcVidMap'
            /\ \A v \in Vids \ (new \cup del) :
                  (<<v, loc>> \in mcVidMap') <=> (<<v, loc>> \in mcVidMap)
            /\ \A v \in Vids, l \in Locations \ {loc} :
                  (<<v, l>> \in mcVidMap') <=> (<<v, l>> \in mcVidMap)]_vars

\* a message with a vid in both lists and another vid in new_vids only has
\* been processed
C8_Witness ==
    /\ mcPc = "recv"
    /\ \E v, w \in Vids :
        /\ v # w
        /\ v \in ListSet(mcMsg.NewVids) /\ v \in ListSet(mcMsg.DeletedVids)
        /\ w \in ListSet(mcMsg.NewVids) /\ w \notin ListSet(mcMsg.DeletedVids)
        /\ <<v, MsgLocation(mcMsg)>> \notin mcVidMap
        /\ <<w, MsgLocation(mcMsg)>> \in mcVidMap
    /\ \E p \in mcVidMap : p[2] # MsgLocation(mcMsg)

\* the client still maps a vid to a location the master has announced it
\* deleted from
Stale(v, l) == <<v, l>> \in mcAnnounced /\ <<v, l>> \in mcVidMap

\* C9: once the master has announced that a volume was deleted from a
\* location, the client eventually stops mapping the volume to the location,
\* also when its stream breaks and is set up again in between.
C9_DeletedEventuallyUnmapped ==
    \A v \in Vids, l \in Locations : Stale(v, l) ~> ~Stale(v, l)

----------------------------------------------------------------------------
(* The compact command *)

\* util.LogFatalIfError: the process ends when err is not nil
LogFatalIfError(err) == err = "error"

\* the two methods taken for each other
CompactMethodSwapped(method) == IF method = 0 THEN "Compact2" ELSE "Compact"

\* lines 43-47: the method -method selects
CompactMethod(method) == IF method = 0 THEN "Compact" ELSE "Compact2"

\* lines 32-41: the flag check and storage.NewVolume
CmdLoad ==
    /\ cmdPc = "start"
    /\ IF cmdFlags.volumeId = -1
       THEN /\ cmdPc' = "exited"
            /\ cmdExit' = "false"
            /\ UNCHANGED cmdLoadErr
       ELSE \E err \in {"nil", "error"} :
            /\ cmdLoadErr' = err
            /\ IF LogFatalIfError(err)
               THEN cmdPc' = "exited" /\ cmdExit' = "fatal"
               ELSE cmdPc' = "loaded" /\ UNCHANGED cmdExit
    /\ UNCHANGED <<cmdFlags, cmdCompactErr, cmdCalled>>

\* lines 43-51: the compaction and the return
CmdCompact ==
    /\ cmdPc = "loaded"
    /\ cmdCalled' = CompactMethod(cmdFlags.method)
    /\ \E err \in {"nil", "error"} :
        /\ cmdCompactErr' = err
        /\ cmdExit' = IF LogFatalIfError(err) THEN "fatal" ELSE "true"
    /\ cmdPc' = "exited"
    /\ UNCHANGED <<cmdFlags, cmdLoadErr>>

\* lines 22-28: the flags of one run of the command
CmdInit ==
    /\ cmdFlags \in [volumeId : {-1} \cup 1..MaxVolumeId, method : 0..MaxMethod,
                     preallocateMB : 0..MaxPreallocateMB]
    /\ cmdPc = "start"
    /\ cmdLoadErr = "unset"
    /\ cmdCompactErr = "unset"
    /\ cmdCalled = "none"
    /\ cmdExit = "running"

----------------------------------------------------------------------------
(* Properties of the compact command *)

SelectedMethod ==
    IF cmdFlags.method = 0 THEN "Compact"
    ELSE IF cmdFlags.method = 1 THEN "Compact2"
    ELSE cmdCalled

\* C10: the command succeeds only if the volume loaded and the selected
\* compaction returned no error; a load failure ends the command with a
\* failure before any compaction is called, and a compaction failure ends it
\* with a failure.
C10_CompactExit ==
    /\ cmdExit = "true" =>
          /\ cmdLoadErr = "nil"
          /\ cmdCompactErr = "nil"
          /\ cmdCalled \in {"Compact", "Compact2"}
          /\ cmdCalled = SelectedMethod
    /\ cmdLoadErr = "error" =>
          /\ cmdExit = "fatal"
          /\ cmdCalled = "none"
          /\ cmdCompactErr = "unset"
    /\ cmdCompactErr = "error" => cmdExit = "fatal"
    /\ cmdCalled # "none" => cmdCalled = SelectedMethod /\ cmdLoadErr = "nil"

C10_Witness ==
    /\ cmdExit = "true"
    /\ cmdFlags.method = 1
    /\ cmdCalled = "Compact2"

----------------------------------------------------------------------------
(* Volume compaction: Compact, Compact2 and the commit *)

VolIds == {1, 2}
VolData == {0, 1, 2}          \* 0: a tombstone
VolNeedles == VolIds \X VolData

\* {(id, data) : read(v, id) succeeds}: the last entry of an id wins and a
\* tombstone deletes
LiveSet(dat) == {dat[i] : i \in {j \in 1..Len(dat) : IsLive(dat, j)}}

\* the commit with the post-S tail left out
CommittedWithoutTail(cpd, dat, S) == cpd

\* the commit phase: the post-S tail of the .dat is appended onto the .cpd,
\* which then replaces the .dat
CommittedDat(cpd, dat, S) == cpd \o SubSeq(dat, S + 1, Len(dat))

\* Volume append and delete (a delete appends a tombstone)
VolAppend ==
    /\ ~volReadOnly
    /\ Len(volDat) < MaxVolLen
    /\ \E n \in VolNeedles : volDat' = Append(volDat, n)
    /\ UNCHANGED <<volReadOnly, volCompacting, volS, volCpd, volRev, volTail>>

\* Method 1: the volume is marked read-only and its live needles are copied
\* into the .cpd
VolCompact ==
    /\ volCompacting = "no"
    /\ volRev < MaxVolRev
    /\ volCompacting' = "Compact"
    /\ volReadOnly' = TRUE
    /\ volS' = Len(volDat)
    /\ volCpd' = Compacted(volDat, 1)
    /\ UNCHANGED <<volDat, volRev, volTail>>

\* Method 2: the volume stays writable; the start offset S is recorded and
\* the .cpd is built from the needles up to S
VolCompact2 ==
    /\ volCompacting = "no"
    /\ volRev < MaxVolRev
    /\ volCompacting' = "Compact2"
    /\ volS' = Len(volDat)
    /\ volCpd' = Compacted(volDat, 1)
    /\ UNCHANGED <<volDat, volReadOnly, volRev, volTail>>

\* the commit phase, under the write lock
VolCommitCompact ==
    /\ volCompacting # "no"
    /\ volTail' = SubSeq(volDat, volS + 1, Len(volDat))
    /\ volDat' = CommittedDat(volCpd, volDat, volS)
    /\ volRev' = volRev + 1
    /\ volCompacting' = "no"
    /\ volReadOnly' = FALSE
    /\ volCpd' = <<>>
    /\ UNCHANGED volS

\* an error during compaction: back to the prior state, the .cp* files deleted
VolCompactAbort ==
    /\ volCompacting # "no"
    /\ volCompacting' = "no"
    /\ volReadOnly' = FALSE
    /\ volCpd' = <<>>
    /\ UNCHANGED <<volDat, volS, volRev, volTail>>

VolInit ==
    /\ volDat \in SeqsUpTo(VolNeedles, 1)
    /\ volReadOnly = FALSE
    /\ volCompacting = "no"
    /\ volS = 0
    /\ volCpd = <<>>
    /\ volRev = 0
    /\ volTail = <<>>

----------------------------------------------------------------------------
(* Properties of volume compaction *)

\* C12: the set of (needle id, data) pairs for which a read succeeds is the
\* same before and after a compaction by either method, also with needles
\* appended or deleted after the start offset S during an online compaction;
\* building the .cpd does not change what reads return either.
C12_CompactionPreservesLiveSet ==
    [][(volRev' # volRev \/ volCompacting' # volCompacting) =>
          LiveSet(volDat') = LiveSet(volDat)]_vars

\* an online compaction was committed that dropped a needle from the .dat
\* and whose post-S tail deleted one needle and overwrote or added another
C12_Witness ==
    /\ volRev = 1
    /\ volCompacting = "no"
    /\ \E i \in 1..Len(volTail) : volTail[i][2] = 0
    /\ \E i \in 1..Len(volTail) : volTail[i][2] # 0
    /\ Len(volDat) < volS + Len(volTail)
    /\ LiveSet(volDat) # {}

----------------------------------------------------------------------------
(* parseURLPath *)

\* Go's s[a:b] on a string, with 0-based a and b; it panics outside
\* 0 <= a <= b <= len(s)
SliceOk(str, a, b) == 0 <= a /\ a <= b /\ b <= Len(str)
Slice(str, a, b) == SubSeq(str, a + 1, b)

\* strings.LastIndex for one character, 0-based; -1: not found
GoLastIndex(str, c) == LastIndexOf(str, c) - 1

\* strings.Count(path, "/")
CountSlash(str) == Cardinality({i \in 1..Len(str) : str[i] = "/"})

\* strings.Split(path, "/")
RECURSIVE SplitSlash(_)
SplitSlash(str) ==
    LET i == IndexOf(str, "/")
    IN  IF i = 0 THEN <<str>>
        ELSE <<SubSeq(str, 1, i - 1)>> \o SplitSlash(SubSeq(str, i + 1, Len(str)))

\* an extension never found
NoExt(name) == <<>>

\* filepath.Ext of a name without a path separator
FilepathExt(name) ==
    LET i == LastIndexOf(name, ".")
    IN  IF i = 0 THEN <<>> ELSE SubSeq(name, i, Len(name))

Parsed(vid, fid, filename, ext, isVolumeIdOnly) ==
    [vid |-> vid, fid |-> fid, filename |-> filename, ext |-> ext,
     isVolumeIdOnly |-> isVolumeIdOnly, panic |-> FALSE]

Panicked ==
    [vid |-> <<>>, fid |-> <<>>, filename |-> <<>>, ext |-> <<>>,
     isVolumeIdOnly |-> FALSE, panic |-> TRUE]

\* lines 151-182
parseURLPath(path) ==
    IF CountSlash(path) = 3
    THEN LET parts == SplitSlash(path)
         IN  Parsed(parts[2], parts[3], parts[4], FilepathExt(parts[4]), FALSE)
    ELSE IF CountSlash(path) = 2
    THEN LET parts == SplitSlash(path)
             dotIndex == GoLastIndex(parts[3], ".")
         IN  IF dotIndex > 0
             THEN Parsed(parts[2], Slice(parts[3], 0, dotIndex), <<>>,
                         Slice(parts[3], dotIndex, Len(parts[3])), FALSE)
             ELSE Parsed(parts[2], parts[3], <<>>, <<>>, FALSE)
    ELSE LET sepIndex == GoLastIndex(path, "/")
         IN  IF ~SliceOk(path, sepIndex, Len(path)) THEN Panicked
             ELSE
             LET rest == Slice(path, sepIndex, Len(path))
                 commaIndex == GoLastIndex(rest, ",")
                 dotIndex == GoLastIndex(rest, ".")
             IN  IF commaIndex <= 0
                 THEN Parsed(Slice(path, sepIndex + 1, Len(path)), <<>>, <<>>,
                             <<>>, TRUE)
                 ELSE IF ~SliceOk(path, sepIndex + 1, commaIndex) THEN Panicked
                 ELSE IF dotIndex > 0
                 THEN IF ~SliceOk(path, commaIndex + 1, dotIndex) THEN Panicked
                      ELSE Parsed(Slice(path, sepIndex + 1, commaIndex),
                                  Slice(path, commaIndex + 1, dotIndex), <<>>,
                                  Slice(path, dotIndex, Len(path)), FALSE)
                 ELSE Parsed(Slice(path, sepIndex + 1, commaIndex),
                             Slice(path, commaIndex + 1, Len(path)), <<>>, <<>>,
                             FALSE)

\* the paths a request may carry
NonEmptySeqs(S, n) == SeqsUpTo(S, n) \ {<<>>}
VidStrs == NonEmptySeqs({"3"}, MaxPart)
FidStrs == NonEmptySeqs({"3", "a"}, MaxPart)
ExtStrs == NonEmptySeqs({"a"}, MaxPart)
FileNames == NonEmptySeqs({"a", "."}, MaxPart + 1)
RawPaths == SeqsUpTo({"/", ",", ".", "3", "a"}, MaxRawPath)

UrlForms == {"vid/fid", "vid/fid.ext", "vid/fid/filename", "vid,fid",
             "vid,fid.ext", "vid", "raw"}

PathOf(form, vid, fid, ext, filename, raw) ==
    CASE form = "vid/fid" -> <<"/">> \o vid \o <<"/">> \o fid
      [] form = "vid/fid.ext" -> <<"/">> \o vid \o <<"/">> \o fid \o <<".">> \o ext
      [] form = "vid/fid/filename" ->
            <<"/">> \o vid \o <<"/">> \o fid \o <<"/">> \o filename
      [] form = "vid,fid" -> <<"/">> \o vid \o <<",">> \o fid
      [] form = "vid,fid.ext" -> <<"/">> \o vid \o <<",">> \o fid \o <<".">> \o ext
      [] form = "vid" -> <<"/">> \o vid
      [] OTHER -> raw

\* the handler calls parseURLPath(r.URL.Path)
ParseURLPath ==
    /\ urlPc = "start"
    /\ urlPc' = "parsed"
    /\ urlRet' = parseURLPath(urlIn.path)
    /\ UNCHANGED urlIn

UrlInput(form, vid, fid, ext, filename, raw) ==
    [form |-> form, vid |-> vid, fid |-> fid, ext |-> ext, filename |-> filename,
     path |-> PathOf(form, vid, fid, ext, filename, raw)]

UrlInputs ==
    {UrlInput(f, vf[1], vf[2], <<>>, <<>>, <<>>) :
        f \in {"vid/fid", "vid,fid"}, vf \in VidStrs \X FidStrs}
    \cup {UrlInput(f, vf[1], vf[2], vf[3], <<>>, <<>>) :
        f \in {"vid/fid.ext", "vid,fid.ext"}, vf \in VidStrs \X FidStrs \X ExtStrs}
    \cup {UrlInput("vid/fid/filename", vf[1], vf[2], <<>>, vf[3], <<>>) :
        vf \in VidStrs \X FidStrs \X FileNames}
    \cup {UrlInput("vid", vid, <<>>, <<>>, <<>>, <<>>) : vid \in VidStrs}
    \cup {UrlInput("raw", <<>>, <<>>, <<>>, <<>>, raw) : raw \in RawPaths}

UrlInit ==
    /\ urlIn \in UrlInputs
    /\ urlPc = "start"
    /\ urlRet = Panicked

----------------------------------------------------------------------------
(* Properties of parseURLPath *)

\* the extension of a file name: from its last dot on, or nothing
ExtensionOf(name) ==
    IF \A i \in 1..Len(name) : name[i] # "."
    THEN <<>>
    ELSE LET k == CHOOSE i \in 1..Len(name) :
                     name[i] = "." /\ \A j \in (i + 1)..Len(name) : name[j] # "."
         IN  [j \in 1..(Len(name) - k + 1) |-> name[k + j - 1]]

\* C13: parseURLPath gives the same vid and fid for every URL form of one
\* file id: /vid/fid (no ext), /vid/fid.ext (ext ".ext"), /vid/fid/filename
\* (the file name, ext the extension of the file name), /vid,fid and
\* /vid,fid.ext (the same vid, fid and ext); /vid without a comma gives the
\* vid and isVolumeIdOnly.
C13_ParseURLPathForms ==
    urlPc = "parsed" =>
        /\ urlIn.form \in {"vid/fid", "vid,fid"} =>
              urlRet = Parsed(urlIn.vid, urlIn.fid, <<>>, <<>>, FALSE)
        /\ urlIn.form \in {"vid/fid.ext", "vid,fid.ext"} =>
              urlRet = Parsed(urlIn.vid, urlIn.fid, <<>>, <<".">> \o urlIn.ext, FALSE)
        /\ urlIn.form = "vid/fid/filename" =>
              urlRet = Parsed(urlIn.vid, urlIn.fid, urlIn.filename,
                              ExtensionOf(urlIn.filename), FALSE)
        /\ urlIn.form = "vid" =>
              /\ urlRet.vid = urlIn.vid
              /\ urlRet.isVolumeIdOnly
              /\ ~urlRet.panic

\* a path with a file name that has an extension has been parsed
C13_Witness ==
    /\ urlPc = "parsed"
    /\ urlIn.form = "vid/fid/filename"
    /\ urlRet.ext # <<>>
    /\ urlRet.ext # urlRet.filename
    /\ urlRet.fid = urlIn.fid

----------------------------------------------------------------------------
(* The filer's PostHandler *)

PathFile == <<"/", "c", "/", "f">>        \* a file in a directory
PathDir == <<"/", "c", "/">>              \* a directory
PathDirName == <<"/", "c", "/", "n">>     \* the directory and the file name "n"
PathTop == <<"/", "f">>                   \* a file at the top
UrlPaths == {PathFile, PathDir, PathDirName, PathTop}
StorePaths == {PathFile, PathDirName, PathTop}

\* the fid each path may be mapped to before the request, and the fid Assign
\* hands out
OldFidOf(path) ==
    IF path = PathFile THEN "f1" ELSE IF path = PathDirName THEN "f2" ELSE "f3"
NewFid == "f9"
Fids == {"f1", "f2", "f3", "f9"}

HasSuffixSlash(path) == Len(path) > 0 /\ path[Len(path)] = "/"

\* fs.filer.FindFile: the fid of the path, "" when it has no entry
FindFile(store, path) == IF path \in DOMAIN store THEN store[path] ELSE ""

Call(op, arg) == <<op, arg>>
Called(op, arg) == \E k \in 1..Len(fsLog) : fsLog[k] = Call(op, arg)

\* lines 73-87: queryFileInfoByPath.  storeErr: FindFile fails; notFoundErr:
\* a missing entry is reported as leveldb.ErrNotFound (and not as "", nil)
queryFileInfoByPath(path, storeErr, notFoundErr, lookupOk) ==
    IF storeErr
    THEN [fileId |-> "", err |-> "store", status |-> 500, log |-> <<>>]
    ELSE IF FindFile(fsStore, path) = ""
    THEN [fileId |-> "", err |-> IF notFoundErr THEN "ErrNotFound" ELSE "nil",
          status |-> 0, log |-> <<>>]
    ELSE IF lookupOk
    THEN [fileId |-> FindFile(fsStore, path), err |-> "nil", status |-> 0,
          log |-> <<>>]
    ELSE [fileId |-> FindFile(fsStore, path), err |-> "lookup", status |-> 404,
          log |-> <<>>]

\* lines 89-106: assignNewFileInfo
assignNewFileInfo(assignOk) ==
    IF assignOk
    THEN [fileId |-> NewFid, err |-> "nil", status |-> 0,
          log |-> <<Call("Assign", NewFid)>>]
    ELSE [fileId |-> "", err |-> "assign", status |-> 500,
          log |-> <<Call("Assign", "")>>]

\* lines 108-134: multipartUploadAnalyzer
multipartUploadAnalyzer(parseOk, storeErr, notFoundErr, lookupOk, assignOk) ==
    IF fsReq.method = "PUT"
    THEN IF ~parseOk
         THEN [fileId |-> "", err |-> "parse", status |-> 500, log |-> <<>>]
         ELSE LET path == IF HasSuffixSlash(fsReq.path) /\ fsReq.fileName # <<>>
                          THEN fsReq.path \o fsReq.fileName
                          ELSE fsReq.path
              IN  queryFileInfoByPath(path, storeErr, notFoundErr, lookupOk)
    ELSE assignNewFileInfo(assignOk)

\* the base64 MD5 digest of the request body (base64 is case sensitive), and
\* the Content-MD5 headers a request may carry: none, the digest, the digest
\* in another letter case, another digest
BodyMD5 == <<"q", "W">>
ContentMD5s == {<<>>, <<"q", "W">>, <<"Q", "w">>, <<"z", "W">>}

\* strings.ToLower
ToLowerChar(c) == IF c = "Q" THEN "q" ELSE IF c = "W" THEN "w" ELSE c
ToLower(s) == [i \in DOMAIN s |-> ToLowerChar(s[i])]

\* lines 165-181: checkContentMD5, TRUE when it returns no error
checkContentMD5 ==
    IF fsReq.md5 # <<>>
    THEN ToLower(BodyMD5) = ToLower(fsReq.md5)
    ELSE TRUE

\* lines 183-217: monolithicUploadAnalyzer
monolithicUploadAnalyzer(storeErr, notFoundErr, lookupOk, assignOk) ==
    LET lastPos == GoLastIndex(fsReq.path, "/")
    IN  IF lastPos = -1 \/ lastPos = 0 \/ lastPos = Len(fsReq.path) - 1
        THEN [fileId |-> "", err |-> "path", status |-> 500, log |-> <<>>]
        ELSE IF ~checkContentMD5
        THEN [fileId |-> "", err |-> "md5", status |-> 406, log |-> <<>>]
        ELSE LET q == queryFileInfoByPath(fsReq.path, storeErr, notFoundErr,
                                          lookupOk)
             IN  IF q.err = "nil" /\ q.fileId = ""
                 THEN assignNewFileInfo(assignOk)
                 ELSE q

\* lines 230-243: the analyzer for the request's Content-Type
FsAnalyze ==
    /\ fsPc = "start"
    /\ \E parseOk, storeErr, notFoundErr, lookupOk, assignOk \in BOOLEAN :
        LET a == IF fsReq.multipart
                 THEN multipartUploadAnalyzer(parseOk, storeErr, notFoundErr,
                                              lookupOk, assignOk)
                 ELSE monolithicUploadAnalyzer(storeErr, notFoundErr, lookupOk,
                                               assignOk)
        IN  /\ fsLog' = fsLog \o a.log
            /\ fsFileId' = a.fileId
            /\ IF a.err # "nil"
               THEN fsPc' = "done" /\ fsStatus' = a.status
               ELSE fsPc' = "upload" /\ UNCHANGED fsStatus
    /\ UNCHANGED <<fsReq, fsStore0, fsStore, fsNeedles, fsPath, fsRetName>>

\* the file name the volume server reports: the part's file name, or for a
\* raw body the name makeFormData was given (line 204)
UploadedName ==
    IF fsReq.multipart THEN fsReq.fileName
    ELSE SubSeq(fsReq.path, LastIndexOf(fsReq.path, "/") + 1, Len(fsReq.path))

\* lines 245-283: the upload to the volume server.  A failed upload may have
\* stored the body all the same (the response is lost or unreadable).
FsUpload ==
    /\ fsPc = "upload"
    /\ \E ok, stored \in BOOLEAN :
         IF ok /\ fsFileId # ""
         THEN /\ stored
              /\ fsNeedles' = [fsNeedles EXCEPT ![fsFileId] = "new"]
              /\ fsRetName' = UploadedName
              /\ fsLog' = Append(fsLog, Call("Upload", fsFileId))
              /\ fsPc' = "uploaded"
              /\ UNCHANGED fsStatus
         ELSE /\ ~ok
              /\ fsNeedles' = IF stored /\ fsFileId # ""
                              THEN [fsNeedles EXCEPT ![fsFileId] = "new"]
                              ELSE fsNeedles
              /\ fsLog' = Append(fsLog, Call("UploadFailed", fsFileId))
              /\ fsPc' = "done"
              /\ fsStatus' = 500
              /\ UNCHANGED fsRetName
    /\ UNCHANGED <<fsReq, fsStore0, fsStore, fsFileId, fsPath>>

\* operation.DeleteFile: the needle of the fid is deleted
DeleteFile(needles, fid) ==
    IF fid \in DOMAIN needles /\ needles[fid] # "absent"
    THEN [needles EXCEPT ![fid] = "deleted"]
    ELSE needles

\* lines 284-302: the path of the entry; the clean-up when a directory was
\* given without a file name; the old fid deleted unless the method is PUT
FsAfterUpload ==
    /\ fsPc = "uploaded"
    /\ IF HasSuffixSlash(fsReq.path) /\ fsRetName = <<>>
       THEN /\ fsPath' = fsReq.path
            /\ fsNeedles' = DeleteFile(fsNeedles, fsFileId)
            /\ fsLog' = Append(fsLog, Call("DeleteFile", fsFileId))
            /\ fsPc' = "done"
            /\ fsStatus' = 500
       ELSE LET path == IF HasSuffixSlash(fsReq.path)
                        THEN fsReq.path \o fsRetName ELSE fsReq.path
            IN  /\ fsPath' = path
                /\ fsPc' = "create"
                /\ UNCHANGED fsStatus
                /\ \E storeErr, notFoundErr \in BOOLEAN :
                     LET oldFid == FindFile(fsStore, path)
                         errNil == /\ ~storeErr
                                   /\ (oldFid = "" => ~notFoundErr)
                     IN  IF fsReq.method # "PUT" /\ errNil
                         THEN /\ fsNeedles' = DeleteFile(fsNeedles, oldFid)
                              /\ fsLog' = Append(fsLog, Call("DeleteFile", oldFid))
                         ELSE UNCHANGED <<fsNeedles, fsLog>>
    /\ UNCHANGED <<fsReq, fsStore0, fsStore, fsFileId, fsRetName>>

\* lines 304-319: the entry is written; when that fails the uploaded fid is
\* deleted
FsCreateFile ==
    /\ fsPc = "create"
    /\ \E ok \in BOOLEAN :
         IF ok
         THEN /\ fsStore' = [fsStore EXCEPT ![fsPath] = fsFileId]
              /\ fsLog' = Append(fsLog, Call("CreateFile", fsFileId))
              /\ fsStatus' = 201
              /\ UNCHANGED fsNeedles
         ELSE /\ fsNeedles' = DeleteFile(fsNeedles, fsFileId)
              /\ fsLog' = fsLog \o <<Call("CreateFileFailed", fsFileId),
                                     Call("DeleteFile", fsFileId)>>
              /\ fsStatus' = 500
              /\ UNCHANGED fsStore
    /\ fsPc' = "done"
    /\ UNCHANGED <<fsReq, fsStore0, fsFileId, fsPath, fsRetName>>

\* a request arrives at a filer that maps some of the paths
FsInit ==
    /\ fsReq \in [method : {"POST", "PUT"}, multipart : BOOLEAN, path : UrlPaths,
                  fileName : {<<>>, <<"n">>}, md5 : ContentMD5s]
    /\ \E mapped \in SUBSET StorePaths :
         /\ fsStore0 = [p \in StorePaths |-> IF p \in mapped THEN OldFidOf(p) ELSE ""]
         /\ fsNeedles = [f \in Fids |->
                           IF \E p \in mapped : OldFidOf(p) = f THEN "old"
                           ELSE "absent"]
    /\ fsStore = fsStore0
    /\ fsPc = "start"
    /\ fsFileId = ""
    /\ fsPath = <<>>
    /\ fsRetName = <<>>
    /\ fsLog = <<>>
    /\ fsStatus = 0

----------------------------------------------------------------------------
(* Properties of PostHandler *)

UploadSucceeded == Called("Upload", fsFileId)

\* the fid the filer mapped the path of the entry to when the request arrived
OldFid == FindFile(fsStore0, fsPath)

\* C18: after a successful upload the handler deletes the old fid of the
\* path if and only if the method is not PUT; a PUT request issues no
\* delete for the old fid.
C18_OldFidDeletedUnlessPut ==
    (fsPc = "done" /\ UploadSucceeded /\ OldFid # "") =>
        (Called("DeleteFile", OldFid) <=> fsReq.method # "PUT")

\* C19: when the upload succeeded and the handler ended with an error, the
\* handler has issued DeleteFile for the uploaded fid and no filer entry
\* points to that fid.
C19_FailedWriteCleanedUp ==
    (fsPc = "done" /\ UploadSucceeded /\ fsStatus # 201) =>
        /\ Called("DeleteFile", fsFileId)
        /\ \A p \in StorePaths : fsStore[p] # fsFileId

\* C20: when the handler responded 201 Created, the filer maps the path to
\* the returned fid, the needle of that fid is live and holds the uploaded
\* body, and the handler issued no delete for that fid.
C20_CreatedIsStored ==
    fsStatus = 201 =>
        /\ fsStore[fsPath] = fsFileId
        /\ fsNeedles[fsFileId] = "new"
        /\ ~Called("DeleteFile", fsFileId)

\* C21: whenever PostHandler ends with an error response, the needle the
\* filer mapped the path to before the request has not been deleted by the
\* handler and the path still maps to it.
C21_FailedWriteKeepsOldFile ==
    (fsPc = "done" /\ fsStatus # 201 /\ OldFid # "") =>
        /\ ~Called("DeleteFile", OldFid)
        /\ fsNeedles[OldFid] # "deleted"
        /\ fsStore[fsPath] = OldFid

\* C25: a request that is not multipart and carries a Content-MD5 header
\* that is not the base64 MD5 digest of its body ends with 406, and the
\* handler issues no Assign and no upload and leaves the filer store as it
\* was.
C25_BadContentMD5Rejected ==
    (~fsReq.multipart /\ fsReq.md5 # <<>> /\ fsReq.md5 # BodyMD5) =>
        /\ fsPc = "done" => fsStatus = 406
        /\ \A k \in 1..Len(fsLog) : fsLog[k][1] \notin {"Assign", "Upload", "UploadFailed"}
        /\ fsStore = fsStore0

\* the same for a header that differs from the digest in more than letter
\* case, on a path that names a file below a directory
C25_OtherDigestRejected ==
    (/\ ~fsReq.multipart
     /\ fsReq.md5 # <<>>
     /\ ToLower(fsReq.md5) # ToLower(BodyMD5)
     /\ fsReq.path \in {PathFile, PathDirName}) =>
        /\ fsPc = "done" => fsStatus = 406
        /\ \A k \in 1..Len(fsLog) : fsLog[k][1] \notin {"Assign", "Upload", "UploadFailed"}
        /\ fsStore = fsStore0

----------------------------------------------------------------------------
(* Specifications *)

HbIdle ==
    /\ pulseSeconds = 1
    /\ masterNode = ""
    /\ bootstrapMaster = ""
    /\ connected = TRUE
    /\ hbPc = "join"
    /\ hbSleep = 0
    /\ joinOk = TRUE
    /\ joinMaster = ""
    /\ hbFails = 0
    /\ vsStopped = FALSE


SecIdle ==
    /\ whiteList = <<>>
    /\ secReq = NoReq
    /\ secInvoked = "none"
    /\ secBody = <<>>

CopyNext ==
    \/ SrcAppend /\ UNCHANGED notCopy
    \/ SrcCompactCommit /\ UNCHANGED notCopy
    \/ CopyFileCheck /\ UNCHANGED notCopy
    \/ CopyFileOpen /\ UNCHANGED notCopy
    \/ CopyFileSend /\ UNCHANGED notCopy
    \/ CopyFileFail /\ UNCHANGED notCopy
    \/ VolumeCopyStart /\ UNCHANGED notCopy
    \/ VolumeCopyStatus /\ UNCHANGED notCopy
    \/ VolumeCopyCopyFile /\ UNCHANGED notCopy
    \/ WriteToFileOpen /\ UNCHANGED notCopy
    \/ WriteToFileRecvChunk /\ UNCHANGED notCopy
    \/ WriteToFileRecvEOF /\ UNCHANGED notCopy
    \/ WriteToFileRecvErr /\ UNCHANGED notCopy
    \/ VolumeCopyCheck /\ UNCHANGED notCopy
    \/ VolumeCopyMount /\ UNCHANGED notCopy

HbNext ==
    \/ HbJoin /\ UNCHANGED notHb
    \/ HbWake /\ UNCHANGED notHb
    \/ Shutdown /\ UNCHANGED notHb

SecNext == ServeHTTP /\ UNCHANGED notSec

McNext ==
    \/ McConnect /\ UNCHANGED notMc
    \/ McConnectFail /\ UNCHANGED notMc
    \/ McRecv /\ UNCHANGED notMc
    \/ McRecvErr /\ UNCHANGED notMc
    \/ McRecvErrLosing /\ UNCHANGED notMc
    \/ McSleep /\ UNCHANGED notMc

KcNext ==
    \/ McConnect /\ UNCHANGED notMc
    \/ McConnectFail /\ UNCHANGED notMc
    \/ McRecv /\ UNCHANGED notMc
    \/ McRecvErr /\ UNCHANGED notMc
    \/ McRecvErrLosing /\ UNCHANGED notMc
    \/ McSleep /\ UNCHANGED notMc
    \/ WaitUntilConnected /\ UNCHANGED notMc

CmdNext ==
    \/ CmdLoad /\ UNCHANGED notCmd
    \/ CmdCompact /\ UNCHANGED notCmd

McIdle ==
    /\ mcPc = "dial"
    /\ mcIdx = 1
    /\ mcCurrentMaster = ""
    /\ mcVidMap = {}
    /\ mcMsg = NoMsg
    /\ mcAnnounced = {}
    /\ mcUp = {}
    /\ mcWaitPc = "waiting"

VolNext ==
    \/ VolAppend /\ UNCHANGED notVol
    \/ VolCompact /\ UNCHANGED notVol
    \/ VolCompact2 /\ UNCHANGED notVol
    \/ VolCommitCompact /\ UNCHANGED notVol
    \/ VolCompactAbort /\ UNCHANGED notVol

VolIdle ==
    /\ volDat = <<>>
    /\ volReadOnly = FALSE
    /\ volCompacting = "no"
    /\ volS = 0
    /\ volCpd = <<>>
    /\ volRev = 0
    /\ volTail = <<>>

UrlNext == ParseURLPath /\ UNCHANGED notUrl

UrlIdle ==
    /\ urlIn = [form |-> "raw", vid |-> <<>>, fid |-> <<>>, ext |-> <<>>,
                filename |-> <<>>, path |-> <<>>]
    /\ urlPc = "start"
    /\ urlRet = Panicked

FsNext ==
    \/ FsAnalyze /\ UNCHANGED notFs
    \/ FsUpload /\ UNCHANGED notFs
    \/ FsAfterUpload /\ UNCHANGED notFs
    \/ FsCreateFile /\ UNCHANGED notFs

FsIdle ==
    /\ fsReq = [method |-> "POST", multipart |-> TRUE, path |-> PathFile,
                fileName |-> <<>>, md5 |-> "none"]
    /\ fsStore0 = [p \in StorePaths |-> ""]
    /\ fsStore = fsStore0
    /\ fsNeedles = [f \in Fids |-> "absent"]
    /\ fsPc = "start"
    /\ fsFileId = ""
    /\ fsPath = <<>>
    /\ fsRetName = <<>>
    /\ fsLog = <<>>
    /\ fsStatus = 0

CmdIdle ==
    /\ cmdFlags = [volumeId |-> -1, method |-> 0, preallocateMB |-> 0]
    /\ cmdPc = "start"
    /\ cmdLoadErr = "unset"
    /\ cmdCompactErr = "unset"
    /\ cmdCalled = "none"
    /\ cmdExit = "running"

CopyIdle ==
    /\ srcDat = <<>>
    /\ srcIdx = <<>>
    /\ srcRev = 0
    /\ dstDat = NoFile
    /\ dstIdx = NoFile
    /\ dstMounted = FALSE
    /\ vcPc = "idle"
    /\ vcResp = NoResp
    /\ vcErr = "none"
    /\ vcWrote = {}
    /\ dstModTimeAsReported = FALSE
    /\ dstFromRev = NoneCopied
    /\ vcBefore = NoBefore
    /\ stream = NoStream

InitCopy == CopyInit /\ HbIdle /\ SecIdle /\ McIdle /\ CmdIdle /\ VolIdle /\ UrlIdle /\ FsIdle
SpecCopy == InitCopy /\ [][CopyNext]_vars

InitHB == CopyIdle /\ HbInit /\ SecIdle /\ McIdle /\ CmdIdle /\ VolIdle /\ UrlIdle /\ FsIdle
SpecHB == InitHB /\ [][HbNext]_vars

InitSec == CopyIdle /\ HbIdle /\ SecInit /\ McIdle /\ CmdIdle /\ VolIdle /\ UrlIdle /\ FsIdle
SpecSec == InitSec /\ [][SecNext]_vars

InitMC == CopyIdle /\ HbIdle /\ SecIdle /\ McInit /\ CmdIdle /\ VolIdle /\ UrlIdle /\ FsIdle
SpecMC == InitMC /\ [][McNext]_vars

\* the client's loop is always scheduled again: a dial ends one way or the
\* other, the sleep ends, and messages of the master keep arriving on an
\* open stream
SpecMCFair ==
    /\ SpecMC
    /\ WF_vars((McConnect \/ McConnectFail) /\ UNCHANGED notMc)
    /\ WF_vars(McSleep /\ UNCHANGED notMc)
    /\ WF_vars(McRecv /\ UNCHANGED notMc)

InitKC == CopyIdle /\ HbIdle /\ SecIdle /\ KcInit /\ CmdIdle /\ VolIdle /\ UrlIdle /\ FsIdle
SpecKC == InitKC /\ [][KcNext]_vars

\* the loop and the caller of WaitUntilConnected are always scheduled again
SpecKCFair ==
    /\ SpecKC
    /\ WF_vars((McConnect \/ McConnectFail) /\ UNCHANGED notMc)
    /\ WF_vars(McSleep /\ UNCHANGED notMc)
    /\ WF_vars(WaitUntilConnected /\ UNCHANGED notMc)

InitCmd == CopyIdle /\ HbIdle /\ SecIdle /\ McIdle /\ CmdInit /\ VolIdle /\ UrlIdle /\ FsIdle
SpecCmd == InitCmd /\ [][CmdNext]_vars

InitVol == CopyIdle /\ HbIdle /\ SecIdle /\ McIdle /\ CmdIdle /\ VolInit /\ UrlIdle /\ FsIdle
SpecVol == InitVol /\ [][VolNext]_vars

InitUrl == CopyIdle /\ HbIdle /\ SecIdle /\ McIdle /\ CmdIdle /\ VolIdle /\ UrlInit /\ FsIdle
SpecUrl == InitUrl /\ [][UrlNext]_vars

InitFs == CopyIdle /\ HbIdle /\ SecIdle /\ McIdle /\ CmdIdle /\ VolIdle /\ UrlIdle /\ FsInit
SpecFs == InitFs /\ [][FsNext]_vars

\* the loop is a goroutine of its own: it is always scheduled again
SpecHBFair ==
    /\ SpecHB
    /\ WF_vars(HbJoin /\ UNCHANGED notHb)
    /\ WF_vars(HbWake /\ UNCHANGED notHb)

====
